---- MODULE Spec2Model ----
(***************************************************************************)
(* A model of the scripts of the repository:                               *)
(*   nfl_dwave.py  builds the QUBO coefficient dictionary Q of the lineup  *)
(*                 problem in four accumulating passes and hands it to a   *)
(*                 sampler;                                                *)
(*   nfl_pulp.py   states the same lineup problem as an integer program;   *)
(*   sarima.py     computes an AQI series per station, fits a model and    *)
(*                 forecasts four horizons.                                *)
(*                                                                         *)
(* Numbers.  The Python floats of nfl_dwave.py hold integers of magnitude  *)
(* below 2^53 in every run modelled here, so float arithmetic on them is   *)
(* exact integer arithmetic.  The values exceed 32 bits (2*beta*budget*    *)
(* salary = 1.6e10 for the script's own data), so a coefficient is kept as *)
(* a two-limb integer [hi, lo] denoting hi*Base + lo with 0 <= lo < Base.  *)
(***************************************************************************)
EXTENDS Integers, Sequences, FiniteSets, TLC

VARIABLES
    players,          \* nfl_dwave.py: the roster, index -> (id, pos, points, salary)
    budget,           \* nfl_dwave.py: budget
    team_size,        \* nfl_dwave.py: team_size
    positional_reqs,  \* nfl_dwave.py: positional_reqs, position -> required count
    alpha, beta, gamma, delta,   \* nfl_dwave.py: the four penalty weights
    N,                \* nfl_dwave.py: N = len(players)
    Q,                \* nfl_dwave.py: the QUBO dictionary, (i, j) -> coefficient
    pc,               \* nfl_dwave.py: the statement the script is about to run
    best_sample,      \* nfl_dwave.py: response.first.sample
    selected_players, \* nfl_dwave.py: indices with best_sample[i] == 1
    total_points,     \* nfl_dwave.py: total_points
    total_salary,     \* nfl_dwave.py: total_salary
    positions,        \* nfl_dwave.py: positions, position -> selected count
    files,            \* sarima.py: the PM2.5 column of each station's CSV file
    s_pc,             \* sarima.py: the statement the script is about to run
    station,          \* sarima.py: position of the stations loop (1-based)
    data_daily,       \* sarima.py: data_daily of the station being processed
    results,          \* sarima.py: results = model.fit(...) of that station
    forecasts,        \* sarima.py: forecasts of the running fit_and_forecast
    outputs,          \* sarima.py: the CSV and PNG files written so far
    all_forecasts,    \* sarima.py: all_forecasts
    validation_metrics, \* sarima.py: validation_metrics
    summary_printed   \* sarima.py: the summary of lines 144-153 was printed

qvars == <<players, budget, team_size, positional_reqs, alpha, beta, gamma,
           delta, N, Q, pc, best_sample, selected_players, total_points,
           total_salary, positions>>

svars == <<files, s_pc, station, data_daily, results, forecasts, outputs,
           all_forecasts, validation_metrics, summary_printed>>

vars == <<qvars, svars>>

-----------------------------------------------------------------------------
(* Exact integers wider than 32 bits.                                      *)

Base == 2^15

W(n) == [hi |-> n \div Base, lo |-> n % Base]

WAdd(a, b) ==
    LET l == a.lo + b.lo
    IN  [hi |-> a.hi + b.hi + (l \div Base), lo |-> l % Base]

WNeg(a) ==
    IF a.lo = 0 THEN [hi |-> 0 - a.hi, lo |-> 0]
                ELSE [hi |-> 0 - a.hi - 1, lo |-> Base - a.lo]

WSub(a, b) == WAdd(a, WNeg(b))

\* a * k for a machine-size k >= 0
WMul(a, k) ==
    LET l == a.lo * k
    IN  [hi |-> a.hi * k + (l \div Base), lo |-> l % Base]

WLess(a, b) == a.hi < b.hi \/ (a.hi = b.hi /\ a.lo < b.lo)

WMin(a, b) == IF WLess(b, a) THEN b ELSE a

-----------------------------------------------------------------------------
(* nfl_dwave.py: the data.                                                 *)

\* The fields of a player tuple: players[i][1], players[i][2], players[i][3].
Pos(p)    == p[2]
Points(p) == p[3]
Salary(p) == p[4]

NFLPlayers ==
    [i \in 0..13 |->
        <<i>> \o
        CASE i = 0  -> <<"QB", 50, 8000>>
          [] i = 1  -> <<"QB", 30, 7500>>
          [] i = 2  -> <<"RB", 25, 6000>>
          [] i = 3  -> <<"RB", 18, 5400>>
          [] i = 4  -> <<"RB", 12, 5200>>
          [] i = 5  -> <<"WR", 16, 5800>>
          [] i = 6  -> <<"WR", 15, 5200>>
          [] i = 7  -> <<"WR", 13, 4900>>
          [] i = 8  -> <<"WR", 9, 4500>>
          [] i = 9  -> <<"TE", 12, 4000>>
          [] i = 10 -> <<"TE", 10, 3800>>
          [] i = 11 -> <<"TE", 10, 3200>>
          [] i = 12 -> <<"DST", 9, 2200>>
          [] i = 13 -> <<"DST", 6, 1000>>]

NFLBudget == 100000
NFLTeamSize == 9
NFLPositionalReqs ==
    [p \in {"QB", "RB", "WR", "TE", "DST"} |->
        CASE p = "QB" -> 1 [] p = "RB" -> 2 [] p = "WR" -> 3
          [] p = "TE" -> 2 [] p = "DST" -> 1]

NFLAlpha == 1
NFLBeta  == 10
NFLGamma == 100
NFLDelta == 100

-----------------------------------------------------------------------------
(* nfl_dwave.py: the builder.  Each pass is the function of the dictionary *)
(* it is given; the script's actions below apply them in program order.    *)

\* Mutant: the update runs j over range(N) instead of range(i + 1, N).
InitQ_AllPairs(n) ==
    [k \in (0..(n - 1)) \X (0..(n - 1)) |-> W(0)]

\* Q = {(i, i): 0.0 ...}; Q.update({(i, j): 0.0 ... for j in range(i + 1, N)})
InitQ(n) ==
    [k \in {<<i, i>> : i \in 0..(n - 1)} |-> W(0)]
    @@ [k \in {ij \in (0..(n - 1)) \X (0..(n - 1)) :
                   ij[2] \in (ij[1] + 1)..(n - 1)} |-> W(0)]

\* Mutant: the objective pass assigns (=) where the script subtracts (-=).
PointsPass_Overwrite(q, P, a) ==
    [k \in DOMAIN q |->
        IF k[1] = k[2] /\ k[1] \in DOMAIN P
        THEN WNeg(W(a * Points(P[k[1]])))
        ELSE q[k]]

\* for i in range(N): Q[(i, i)] -= alpha * players[i][2]
PointsPass(q, P, a) ==
    [k \in DOMAIN q |->
        IF k[1] = k[2] /\ k[1] \in DOMAIN P
        THEN WSub(q[k], W(a * Points(P[k[1]])))
        ELSE q[k]]

\* Mutant: the pair term loses its factor 2.
SalaryPass_NoFactor2(q, P, b, B) ==
    [k \in DOMAIN q |->
        IF k[1] \in DOMAIN P /\ k[2] \in DOMAIN P
        THEN IF k[1] = k[2]
             THEN WSub(WAdd(q[k], W(b * (Salary(P[k[1]]) * Salary(P[k[1]])))),
                       WMul(W(2 * b * B), Salary(P[k[1]])))
             ELSE IF k[1] < k[2]
                  THEN WAdd(q[k], W(b * Salary(P[k[1]]) * Salary(P[k[2]])))
                  ELSE q[k]
        ELSE q[k]]

\* Mutant: the diagonal takes cost * 2 where the script takes cost ** 2.
SalaryPass_Doubled(q, P, b, B) ==
    [k \in DOMAIN q |->
        IF k[1] \in DOMAIN P /\ k[2] \in DOMAIN P
        THEN IF k[1] = k[2]
             THEN WSub(WAdd(q[k], W(b * (Salary(P[k[1]]) * 2))),
                       WMul(W(2 * b * B), Salary(P[k[1]])))
             ELSE IF k[1] < k[2]
                  THEN WAdd(q[k], W(2 * b * Salary(P[k[1]]) * Salary(P[k[2]])))
                  ELSE q[k]
        ELSE q[k]]

\* Mutant: the budget term is added (+=) where the script subtracts it (-=).
SalaryPass_SignSlip(q, P, b, B) ==
    [k \in DOMAIN q |->
        IF k[1] \in DOMAIN P /\ k[2] \in DOMAIN P
        THEN IF k[1] = k[2]
             THEN WAdd(WAdd(q[k], W(b * (Salary(P[k[1]]) * Salary(P[k[1]])))),
                       WMul(W(2 * b * B), Salary(P[k[1]])))
             ELSE IF k[1] < k[2]
                  THEN WAdd(q[k], W(2 * b * Salary(P[k[1]]) * Salary(P[k[2]])))
                  ELSE q[k]
        ELSE q[k]]

\* for i: Q[(i, i)] += beta * c_i ** 2; Q[(i, i)] -= 2 * beta * budget * c_i
\*        for j > i: Q[(i, j)] += 2 * beta * c_i * c_j
SalaryPass(q, P, b, B) ==
    [k \in DOMAIN q |->
        IF k[1] \in DOMAIN P /\ k[2] \in DOMAIN P
        THEN IF k[1] = k[2]
             THEN WSub(WAdd(q[k], W(b * (Salary(P[k[1]]) * Salary(P[k[1]])))),
                       WMul(W(2 * b * B), Salary(P[k[1]])))
             ELSE IF k[1] < k[2]
                  THEN WAdd(q[k], W(2 * b * Salary(P[k[1]]) * Salary(P[k[2]])))
                  ELSE q[k]
        ELSE q[k]]

\* Mutant: the inner test players[j][1] == pos is missing.
PositionalStep_NoInnerTest(q, P, g, pos, n_k) ==
    [k \in DOMAIN q |->
        IF k[1] \in DOMAIN P /\ k[2] \in DOMAIN P /\ Pos(P[k[1]]) = pos
        THEN IF k[1] = k[2]
             THEN WAdd(q[k], W(g * (1 - 2 * n_k)))
             ELSE IF k[1] < k[2] THEN WAdd(q[k], W(2 * g)) ELSE q[k]
        ELSE q[k]]

\* Mutant: gamma * 1 - 2 * n_k, the parentheses of (1 - 2 * n_k) lost.
PositionalStep_NoParens(q, P, g, pos, n_k) ==
    [k \in DOMAIN q |->
        IF k[1] \in DOMAIN P /\ k[2] \in DOMAIN P
           /\ Pos(P[k[1]]) = pos /\ Pos(P[k[2]]) = pos
        THEN IF k[1] = k[2]
             THEN WAdd(q[k], W(g * 1 - 2 * n_k))
             ELSE IF k[1] < k[2] THEN WAdd(q[k], W(2 * g)) ELSE q[k]
        ELSE q[k]]

\* The body of the loop over positional_reqs.items(), for one (pos, n_k).
PositionalStep(q, P, g, pos, n_k) ==
    [k \in DOMAIN q |->
        IF k[1] \in DOMAIN P /\ k[2] \in DOMAIN P
           /\ Pos(P[k[1]]) = pos /\ Pos(P[k[2]]) = pos
        THEN IF k[1] = k[2]
             THEN WAdd(q[k], W(g * (1 - 2 * n_k)))
             ELSE IF k[1] < k[2] THEN WAdd(q[k], W(2 * g)) ELSE q[k]
        ELSE q[k]]

RECURSIVE PositionalLoop(_, _, _, _, _)
PositionalLoop(q, P, g, reqs, todo) ==
    IF todo = {} THEN q
    ELSE LET pos == CHOOSE p \in todo : TRUE
         IN  PositionalLoop(PositionalStep(q, P, g, pos, reqs[pos]),
                            P, g, reqs, todo \ {pos})

\* for pos, n_k in positional_reqs.items(): ...
PositionalPass(q, P, g, reqs) == PositionalLoop(q, P, g, reqs, DOMAIN reqs)

\* Mutant: delta * (1 - team_size), the factor 2 of the expansion lost.
TeamSizePass_NoFactor2(q, P, d, n) ==
    [k \in DOMAIN q |->
        IF k[1] \in DOMAIN P /\ k[2] \in DOMAIN P
        THEN IF k[1] = k[2]
             THEN WAdd(q[k], W(d * (1 - n)))
             ELSE IF k[1] < k[2] THEN WAdd(q[k], W(2 * d)) ELSE q[k]
        ELSE q[k]]

\* for i: Q[(i, i)] += delta * (1 - 2 * team_size); for j > i: Q[(i, j)] += 2 * delta
TeamSizePass(q, P, d, n) ==
    [k \in DOMAIN q |->
        IF k[1] \in DOMAIN P /\ k[2] \in DOMAIN P
        THEN IF k[1] = k[2]
             THEN WAdd(q[k], W(d * (1 - 2 * n)))
             ELSE IF k[1] < k[2] THEN WAdd(q[k], W(2 * d)) ELSE q[k]
        ELSE q[k]]

\* Lines 29-60 as one function of the inputs.
Build(P, B, n, reqs, a, b, g, d) ==
    TeamSizePass(
        PositionalPass(
            SalaryPass(PointsPass(InitQ(Cardinality(DOMAIN P)), P, a), P, b, B),
            P, g, reqs),
        P, d, n)

-----------------------------------------------------------------------------
(* The sampler and the report.                                             *)

\* The energy dimod.BinaryQuadraticModel.from_qubo(Q) gives a sample x:
\* the sum of Q[(i, j)] * x[i] * x[j] over the keys of Q with i <= j < n.
RECURSIVE RowEnergy(_, _, _, _, _)
RowEnergy(q, x, n, i, j) ==
    IF j >= n THEN W(0)
    ELSE IF x[j] = 1 THEN WAdd(q[<<i, j>>], RowEnergy(q, x, n, i, j + 1))
    ELSE RowEnergy(q, x, n, i, j + 1)

RECURSIVE EnergyFrom(_, _, _, _)
EnergyFrom(q, x, n, i) ==
    IF i >= n THEN W(0)
    ELSE IF x[i] = 1 THEN WAdd(RowEnergy(q, x, n, i, i), EnergyFrom(q, x, n, i + 1))
    ELSE EnergyFrom(q, x, n, i + 1)

Energy(q, x, n) == EnergyFrom(q, x, n, 0)

\* The samples a sampler can return: one bit per variable.
Samples(n) == [0..(n - 1) -> {0, 1}]

\* The sum of tuple field f of the players in S (total_points += ..., etc.)
RECURSIVE SumOver(_, _, _)
SumOver(S, P, f) ==
    IF S = {} THEN 0
    ELSE LET i == CHOOSE e \in S : TRUE
         IN  P[i][f] + SumOver(S \ {i}, P, f)

\* positions[pos] = positions.get(pos, 0) + 1 for each selected player
PositionCounts(S, P) ==
    [p \in {Pos(P[i]) : i \in S} |-> Cardinality({i \in S : Pos(P[i]) = p})]

-----------------------------------------------------------------------------
(* nfl_pulp.py: the lineup problem as an integer program.                  *)

Selected(x) == {i \in DOMAIN x : x[i] = 1}

\* lpSum(players[i][3] * x[i]) <= budget
SalaryConstraint(x, P, B) == SumOver(Selected(x), P, 4) <= B

\* for pos, n_k in positional_reqs.items(): lpSum(x[i] if pos) == n_k
PositionalConstraints(x, P, reqs) ==
    \A pos \in DOMAIN reqs :
        Cardinality({i \in Selected(x) : Pos(P[i]) = pos}) = reqs[pos]

\* lpSum(x[i]) == team_size
TeamSizeConstraint(x, n) == Cardinality(Selected(x)) = n

Feasible(x, P, B, reqs, n) ==
    /\ SalaryConstraint(x, P, B)
    /\ PositionalConstraints(x, P, reqs)
    /\ TeamSizeConstraint(x, n)

-----------------------------------------------------------------------------
(* sarima.py.                                                              *)

\* A missing reading (readings are concentrations, never negative)
NaN == 0 - 1

\* round(p / q) for p >= 0, q > 0.  In calculate_aqi_pm25 the quotients of
\* integer readings are never half-way between two integers, so Python's
\* round-half-even and the float error of the quotient do not show.
Round(p, q) == (2 * p + q) \div (2 * q)

Min(a, b) == IF a < b THEN a ELSE b

calculate_aqi_pm25(pm25) ==
    IF pm25 = NaN THEN NaN
    ELSE IF pm25 <= 30  THEN Round(50 * pm25, 30)
    ELSE IF pm25 <= 60  THEN Round(50 * 30 + 50 * (pm25 - 30), 30)
    ELSE IF pm25 <= 90  THEN Round(100 * 30 + 100 * (pm25 - 60), 30)
    ELSE IF pm25 <= 120 THEN Round(200 * 30 + 100 * (pm25 - 90), 30)
    ELSE IF pm25 <= 250 THEN Round(300 * 130 + 100 * (pm25 - 120), 130)
    ELSE Round(Min(400 * 250 + 100 * (pm25 - 250), 500 * 250), 250)

\* stations = [('AP001.csv', 'AP001'), ('AP003.csv', 'AP003')]
stations == <<<<"AP001.csv", "AP001">>, <<"AP003.csv", "AP003">>>>

\* forecast_horizons, in the order the dict is iterated
forecast_horizons ==
    <<<<"1_month", 30>>, <<"6_months", 180>>, <<"1_year", 365>>,
      <<"2_years", 730>>>>

\* The names bound when line 126 is evaluated: the locals of
\* fit_and_forecast and the module's globals assigned before the loop.
BoundNames ==
    {"data_daily", "station_id", "adf_result", "model", "results",
     "forecast_horizons", "forecasts", "horizon_name", "days", "forecast",
     "forecast_mean", "forecast_ci", "forecast_df",
     "pd", "np", "SARIMAX", "adfuller", "plot_acf", "plot_pacf", "plt",
     "logging", "timedelta", "logger", "calculate_aqi_pm25",
     "preprocess_data", "fit_and_forecast", "stations", "all_forecasts",
     "validation_metrics", "file_path"}

\* The PM2.5 readings a file may hold, and the files of a run.
MaxReadings == 2

PM25Samples == {NaN, 12, 45, 75, 100, 200, 300, 600}

Columns == UNION {[1..n -> PM25Samples] : n \in 1..MaxReadings}

NotStarted ==
    /\ s_pc = "preprocess"
    /\ station = 1
    /\ data_daily = <<>>
    /\ results = "none"
    /\ forecasts = <<>>
    /\ outputs = {}
    /\ all_forecasts = <<>>
    /\ validation_metrics = <<>>
    /\ summary_printed = FALSE

\* preprocess_data(file_path, station_id): the AQI column of the file.  The
\* hourly reindexing, the interpolation and the daily mean are pandas calls
\* on that column and are not modelled.
preprocess_data(column) == [h \in DOMAIN column |-> calculate_aqi_pm25(column[h])]

Preprocess ==
    /\ s_pc = "preprocess"
    /\ data_daily' = preprocess_data(files[station])
    /\ s_pc' = "fit"
    /\ UNCHANGED <<files, station, results, forecasts, outputs, all_forecasts,
                   validation_metrics, summary_printed, qvars>>

\* fit_and_forecast, lines 58-91: the ADF test, the trend plot, the fit.
Fit ==
    /\ s_pc = "fit"
    /\ outputs' = outputs \cup {<<"aqi_trend", stations[station][2], "png">>}
    /\ results' = "fitted"
    /\ forecasts' = <<>>
    /\ s_pc' = "forecast"
    /\ UNCHANGED <<files, station, data_daily, all_forecasts,
                   validation_metrics, summary_printed, qvars>>

\* One iteration of the loop over forecast_horizons, lines 93-124.
Forecast ==
    /\ s_pc = "forecast"
    /\ LET h == forecast_horizons[Cardinality(DOMAIN forecasts) + 1]
       IN  /\ forecasts' = [n \in DOMAIN forecasts \cup {h[1]} |->
                               IF n = h[1] THEN h[2] ELSE forecasts[n]]
           /\ outputs' = outputs \cup
                  {<<"aqi_forecast", stations[station][2], h[1], "csv">>,
                   <<"aqi_forecast", stations[station][2], h[1], "png">>}
           /\ s_pc' = IF Cardinality(DOMAIN forecasts) + 1 = Len(forecast_horizons)
                      THEN "return" ELSE "forecast"
    /\ UNCHANGED <<files, station, data_daily, results, all_forecasts,
                   validation_metrics, summary_printed, qvars>>

\* Line 126, return forecasts, mae, rmse, and what follows the call: lines
\* 140-141 store the station's results, the loop goes on, and after the last
\* station lines 144-153 print the summary.  An unbound name raises
\* NameError, which nothing catches: the script ends there.
Return ==
    /\ s_pc = "return"
    /\ IF {"forecasts", "mae", "rmse"} \subseteq BoundNames
       THEN /\ all_forecasts' =
                  [st \in DOMAIN all_forecasts \cup {stations[station][2]} |->
                      IF st = stations[station][2] THEN forecasts
                                                   ELSE all_forecasts[st]]
            /\ validation_metrics' =
                  [st \in DOMAIN validation_metrics \cup {stations[station][2]} |->
                      IF st = stations[station][2] THEN {"MAE", "RMSE"}
                                                   ELSE validation_metrics[st]]
            /\ IF station < Len(stations)
               THEN /\ station' = station + 1
                    /\ s_pc' = "preprocess"
                    /\ UNCHANGED summary_printed
               ELSE /\ summary_printed' = TRUE
                    /\ s_pc' = "done"
                    /\ UNCHANGED station
       ELSE /\ s_pc' = "NameError"
            /\ UNCHANGED <<station, all_forecasts, validation_metrics,
                           summary_printed>>
    /\ UNCHANGED <<files, data_daily, results, forecasts, outputs, qvars>>

-----------------------------------------------------------------------------
(* The inputs of the generic builder runs.                                 *)

MaxN == 3

\* (category, value, cost) of the candidate entities
Pool == {<<"A", 10, 5>>, <<"A", 8, 4>>, <<"B", 8, 5>>}

Categories == {e[1] : e \in Pool}

Rosters ==
    UNION {{[i \in 0..(n - 1) |-> <<i>> \o k[i]] : k \in [0..(n - 1) -> Pool]} :
           n \in 1..MaxN}

Budgets == {6, 9}

TeamSizes == {2}

QuotaValues == {1, 2}

QuotaMaps == UNION {[S -> QuotaValues] : S \in SUBSET Categories}

\* <<alpha, beta, gamma, delta>>
WeightVectors ==
    {<<1, 10, 100, 100>>, <<0, 0, 0, 0>>, <<0, 1, 0, 0>>, <<0, 0, 1, 0>>,
     <<2, 3, 5, 7>>}

NoSample == <<>>

-----------------------------------------------------------------------------
(* nfl_dwave.py as a state machine.                                        *)

\* The state after lines 7-31: the data, N and the zero-initialised Q.
Start(P, B, n, reqs, w) ==
    /\ players = P
    /\ budget = B
    /\ team_size = n
    /\ positional_reqs = reqs
    /\ alpha = w[1] /\ beta = w[2] /\ gamma = w[3] /\ delta = w[4]
    /\ N = Cardinality(DOMAIN P)
    /\ Q = InitQ(Cardinality(DOMAIN P))
    /\ pc = "points"
    /\ best_sample = NoSample
    /\ selected_players = {}
    /\ total_points = 0
    /\ total_salary = 0
    /\ positions = <<>>

\* The forecasting script is another program: in the runs of nfl_dwave.py
\* it has not been started.
SarimaIdle == NotStarted /\ files = [s \in DOMAIN stations |-> <<NaN>>]

Init ==
    /\ \E P \in Rosters, B \in Budgets, n \in TeamSizes, reqs \in QuotaMaps,
          w \in WeightVectors :
           Start(P, B, n, reqs, w)
    /\ SarimaIdle

InitNFL ==
    /\ Start(NFLPlayers, NFLBudget, NFLTeamSize, NFLPositionalReqs,
             <<NFLAlpha, NFLBeta, NFLGamma, NFLDelta>>)
    /\ SarimaIdle

InitSarima ==
    /\ files \in [DOMAIN stations -> Columns]
    /\ NotStarted
    /\ Start(NFLPlayers, NFLBudget, NFLTeamSize, NFLPositionalReqs,
             <<NFLAlpha, NFLBeta, NFLGamma, NFLDelta>>)

inputs == <<players, budget, team_size, positional_reqs, alpha, beta, gamma,
            delta, N>>

report == <<best_sample, selected_players, total_points, total_salary,
            positions>>

Points_ ==
    /\ pc = "points"
    /\ Q' = PointsPass(Q, players, alpha)
    /\ pc' = "salary"
    /\ UNCHANGED <<inputs, report, svars>>

Salary_ ==
    /\ pc = "salary"
    /\ Q' = SalaryPass(Q, players, beta, budget)
    /\ pc' = "positional"
    /\ UNCHANGED <<inputs, report, svars>>

Positional ==
    /\ pc = "positional"
    /\ Q' = PositionalPass(Q, players, gamma, positional_reqs)
    /\ pc' = "team_size"
    /\ UNCHANGED <<inputs, report, svars>>

TeamSize ==
    /\ pc = "team_size"
    /\ Q' = TeamSizePass(Q, players, delta, team_size)
    /\ pc' = "solve"
    /\ UNCHANGED <<inputs, report, svars>>

\* Lines 65-86: the annealer returns some sample (it is a heuristic: any
\* assignment can come back), and the script reports its totals.
Solve ==
    /\ pc = "solve"
    /\ \E x \in Samples(N) :
        /\ best_sample' = x
        /\ selected_players' = {i \in 0..(N - 1) : x[i] = 1}
        /\ total_points' = SumOver({i \in 0..(N - 1) : x[i] = 1}, players, 3)
        /\ total_salary' = SumOver({i \in 0..(N - 1) : x[i] = 1}, players, 4)
        /\ positions' = PositionCounts({i \in 0..(N - 1) : x[i] = 1}, players)
    /\ pc' = "done"
    /\ UNCHANGED <<inputs, Q, svars>>

Next == Points_ \/ Salary_ \/ Positional \/ TeamSize \/ Solve

Spec == Init /\ [][Next]_vars

SpecNFL == InitNFL /\ [][Next]_vars

NextSarima == Preprocess \/ Fit \/ Forecast \/ Return

SpecSarima == InitSarima /\ [][NextSarima]_vars

-----------------------------------------------------------------------------
(* Vocabulary of the properties.                                           *)

Sq(z) == z * z

Abs(z) == IF z < 0 THEN 0 - z ELSE z

Keys(n) == {k \in (0..(n - 1)) \X (0..(n - 1)) : k[1] <= k[2]}

Value(x) == SumOver(Selected(x), players, 3)

Cost(x) == SumOver(Selected(x), players, 4)

Count(x, pos) == Cardinality({i \in Selected(x) : Pos(players[i]) = pos})

RECURSIVE QuotaPenalty(_, _)
QuotaPenalty(x, todo) ==
    IF todo = {} THEN 0
    ELSE LET k == CHOOSE p \in todo : TRUE
         IN  (Sq(Count(x, k) - positional_reqs[k]) - Sq(positional_reqs[k]))
             + QuotaPenalty(x, todo \ {k})

\* The negated objective plus the three squared penalties, constants dropped.
Penalised(x) ==
    (0 - alpha * Value(x))
    + beta * (Sq(Cost(x) - budget) - Sq(budget))
    + gamma * QuotaPenalty(x, DOMAIN positional_reqs)
    + delta * (Sq(Cardinality(Selected(x)) - team_size) - Sq(team_size))

\* Q is finished (line 62) and not yet handed to the sampler.
Built == pc = "solve"

-----------------------------------------------------------------------------
(* C1: at every point of the construction (after initialisation, after     *)
(* each pass, at the end) the keys of Q are exactly the pairs (i, j) with  *)
(* 0 <= i <= j < N: N diagonal keys, N(N-1)/2 off-diagonal keys, none with *)
(* i > j, whatever the weights.                                            *)
C1_KeySet ==
    /\ DOMAIN Q = Keys(N)
    /\ Cardinality({k \in DOMAIN Q : k[1] = k[2]}) = N
    /\ 2 * Cardinality({k \in DOMAIN Q : k[1] # k[2]}) = N * (N - 1)
    /\ \A k \in DOMAIN Q : ~(k[1] > k[2])

C1_Witness ==
    /\ pc = "done" /\ N = 3
    /\ alpha = 0 /\ beta = 0 /\ gamma = 0 /\ delta = 0
    /\ Cardinality(DOMAIN Q) = 6
    /\ \A k \in DOMAIN Q : Q[k] = W(0)

(* C2: for every binary assignment x the energy of the finished Q is       *)
(* -alpha*value(x) + beta*((cost(x)-B)^2 - B^2) + gamma * sum over quota   *)
(* categories of ((count_k(x)-n_k)^2 - n_k^2) + delta*((|x|-n)^2 - n^2).   *)
(* Solve returns every assignment, so the sampled one ranges over all x.   *)
C2_EnergyIsPenalisedObjective ==
    pc = "done" => Energy(Q, best_sample, N) = W(Penalised(best_sample))

C2_Witness ==
    /\ pc = "done" /\ N = 3
    /\ alpha # 0 /\ beta # 0 /\ gamma # 0 /\ delta # 0
    /\ Cardinality(Selected(best_sample)) = 3
    /\ Cardinality(DOMAIN positional_reqs) = 2
    /\ \E i, j \in 0..2 : Pos(players[i]) # Pos(players[j])
    /\ Energy(Q, best_sample, N) # W(0)

(* C3: for the roster [(0, A, 10, 5), (1, A, 8, 4)], budget 9, quota       *)
(* {A: 2}, size 2 and weights 1, 10, 100, 100 the finished Q has           *)
(* Q[(0,0)] = -1260 and Q[(0,1)] = 800.                                    *)
C3_Scenario ==
    /\ N = 2
    /\ players[0] = <<0, "A", 10, 5>> /\ players[1] = <<1, "A", 8, 4>>
    /\ budget = 9 /\ team_size = 2
    /\ DOMAIN positional_reqs = {"A"} /\ positional_reqs["A"] = 2
    /\ alpha = 1 /\ beta = 10 /\ gamma = 100 /\ delta = 100

C3_EndToEnd ==
    (Built /\ C3_Scenario) => Q[<<0, 0>>] = W(-1260) /\ Q[<<0, 1>>] = W(800)

C3_Witness == pc = "solve" /\ C3_Scenario /\ Q[<<0, 1>>] = W(800)

(* C4: the four passes only accumulate into Q: run in any of the 24 orders *)
(* from the zero-initialised Q on the same inputs they give the finished Q *)
(* of the script, key by key.                                              *)
PassNames == {"points", "salary", "positional", "team_size"}

Pass(name, q) ==
    CASE name = "points"     -> PointsPass(q, players, alpha)
      [] name = "salary"     -> SalaryPass(q, players, beta, budget)
      [] name = "positional" -> PositionalPass(q, players, gamma, positional_reqs)
      [] name = "team_size"  -> TeamSizePass(q, players, delta, team_size)

Orders == {o \in [1..4 -> PassNames] : \A a, b \in 1..4 : o[a] = o[b] => a = b}

RunInOrder(o) == Pass(o[4], Pass(o[3], Pass(o[2], Pass(o[1], InitQ(N)))))

C4_OrderIndependent ==
    Built => \A o \in Orders : RunInOrder(o) = Q

C4_Witness ==
    /\ pc = "solve" /\ N = 3
    /\ alpha # 0 /\ beta # 0 /\ gamma # 0 /\ delta # 0
    /\ Cardinality(Orders) = 24
    /\ \A k \in DOMAIN Q : Q[k] # W(0)
    /\ RunInOrder(<<"team_size", "positional", "salary", "points">>) = Q

(* C5: the finished Q is the entrywise sum of the four matrices built with *)
(* one weight non-zero, and multiplying one weight by k multiplies that    *)
(* matrix entrywise by k while the other three stay as they were.          *)
MaxK == 2

MAdd(A, B) == [k \in DOMAIN A |-> WAdd(A[k], B[k])]

MScale(A, c) == [k \in DOMAIN A |-> WMul(A[k], c)]

Only(a, b, g, d) ==
    Build(players, budget, team_size, positional_reqs, a, b, g, d)

C5_Linear ==
    Built =>
        \A MA \in {Only(alpha, 0, 0, 0)}, MB \in {Only(0, beta, 0, 0)},
           MG \in {Only(0, 0, gamma, 0)}, MD \in {Only(0, 0, 0, delta)} :
            /\ Q = MAdd(MAdd(MA, MB), MAdd(MG, MD))
            /\ \A c \in 0..MaxK :
                /\ Only(c * alpha, beta, gamma, delta)
                     = MAdd(MAdd(MScale(MA, c), MB), MAdd(MG, MD))
                /\ Only(alpha, c * beta, gamma, delta)
                     = MAdd(MAdd(MA, MScale(MB, c)), MAdd(MG, MD))
                /\ Only(alpha, beta, c * gamma, delta)
                     = MAdd(MAdd(MA, MB), MAdd(MScale(MG, c), MD))
                /\ Only(alpha, beta, gamma, c * delta)
                     = MAdd(MAdd(MA, MB), MAdd(MG, MScale(MD, c)))

C5_Witness ==
    /\ pc = "solve" /\ N = 3
    /\ alpha # 0 /\ beta # 0 /\ gamma # 0 /\ delta # 0
    /\ Only(alpha, 0, 0, 0) # Only(0, 0, 0, 0)
    /\ Only(0, beta, 0, 0) # Only(0, 0, 0, 0)
    /\ Only(0, 0, gamma, 0) # Only(0, 0, 0, 0)
    /\ Only(0, 0, 0, delta) # Only(0, 0, 0, 0)
    /\ Only(0, 2 * beta, 0, 0) # Only(0, beta, 0, 0)

(* C6: with beta = 1 and the other weights 0 the finished Q has            *)
(* Q[(i,i)] = cost_i^2 - 2*budget*cost_i and Q[(i,j)] = 2*cost_i*cost_j.   *)
C6_BudgetPass ==
    (Built /\ beta = 1 /\ alpha = 0 /\ gamma = 0 /\ delta = 0) =>
        \A i, j \in 0..(N - 1) :
            /\ Q[<<i, i>>]
                 = W(Sq(Salary(players[i])) - 2 * budget * Salary(players[i]))
            /\ i < j =>
                 Q[<<i, j>>] = W(2 * Salary(players[i]) * Salary(players[j]))

C6_Witness ==
    /\ pc = "solve" /\ N = 2
    /\ beta = 1 /\ alpha = 0 /\ gamma = 0 /\ delta = 0
    /\ Salary(players[0]) = 5 /\ Salary(players[1]) = 4 /\ budget = 9
    /\ Q[<<0, 0>>] = W(-65) /\ Q[<<1, 1>>] = W(-56) /\ Q[<<0, 1>>] = W(40)

(* C7: the category-quota pass adds gamma*(1 - 2*n_k) to the diagonal of   *)
(* each entity whose category k has a quota and 2*gamma to each pair i < j *)
(* of entities sharing such a category, and changes nothing else; three    *)
(* entities of one category with quota 2, gamma = 1 and the other weights  *)
(* 0 end with every diagonal -3 and every off-diagonal 2.                  *)
CategoryTerm(k) ==
    LET ci == Pos(players[k[1]])
        cj == Pos(players[k[2]])
    IN  IF ci \in DOMAIN positional_reqs /\ ci = cj
        THEN IF k[1] = k[2] THEN gamma * (1 - 2 * positional_reqs[ci])
                            ELSE 2 * gamma
        ELSE 0

C7_Example ==
    /\ N = 3
    /\ \A i \in 0..2 : Pos(players[i]) = "A"
    /\ DOMAIN positional_reqs = {"A"} /\ positional_reqs["A"] = 2
    /\ gamma = 1 /\ alpha = 0 /\ beta = 0 /\ delta = 0

C7_CategoryPass ==
    /\ [][pc = "positional" =>
            /\ DOMAIN Q' = DOMAIN Q
            /\ \A k \in DOMAIN Q : Q'[k] = WAdd(Q[k], W(CategoryTerm(k)))]_vars
    /\ []((Built /\ C7_Example) =>
            \A k \in DOMAIN Q : Q[k] = IF k[1] = k[2] THEN W(-3) ELSE W(2))

C7_Witness ==
    /\ pc = "team_size" /\ N = 3
    /\ gamma # 0
    /\ DOMAIN positional_reqs = {"A"}
    /\ Pos(players[0]) = "A" /\ Pos(players[1]) = "B" /\ Pos(players[2]) = "A"
    /\ Q[<<0, 2>>] # Q[<<0, 1>>]

(* C8: with only beta non-zero (and positive) two assignments equally far  *)
(* from the budget, one over and one under, have the same energy, and the  *)
(* energy is strictly increasing in |total cost - budget|.                 *)
C8_TwoSided ==
    (Built /\ beta > 0 /\ alpha = 0 /\ gamma = 0 /\ delta = 0) =>
        \A x, y \in Samples(N) :
            /\ Abs(Cost(x) - budget) = Abs(Cost(y) - budget)
                 => Energy(Q, x, N) = Energy(Q, y, N)
            /\ Abs(Cost(x) - budget) < Abs(Cost(y) - budget)
                 => WLess(Energy(Q, x, N), Energy(Q, y, N))

C8_Witness ==
    /\ pc = "solve" /\ beta > 0 /\ alpha = 0 /\ gamma = 0 /\ delta = 0
    /\ \E x, y \in Samples(N) :
        /\ Cost(x) > budget /\ Cost(y) < budget
        /\ Cost(x) - budget = budget - Cost(y)
        /\ Energy(Q, x, N) = Energy(Q, y, N)

(* C9: the forecasting script handles every station of its list: each gets *)
(* its four forecasts stored in all_forecasts and its metrics stored in    *)
(* validation_metrics, and the run does not end before the summary.        *)
Ended == s_pc \in {"done", "NameError"}

C9_EveryStationThenSummary ==
    Ended =>
        /\ summary_printed
        /\ \A s \in DOMAIN stations :
            /\ stations[s][2] \in DOMAIN all_forecasts
            /\ DOMAIN all_forecasts[stations[s][2]]
                 = {forecast_horizons[h][1] : h \in DOMAIN forecast_horizons}
            /\ stations[s][2] \in DOMAIN validation_metrics

(* C10: for the data, budget, team size, requirements and weights of       *)
(* nfl_dwave.py every assignment of least QUBO energy among the 2^14 is    *)
(* feasible for the program of nfl_pulp.py: 9 players, the required count  *)
(* of each position, total salary at most the budget.                      *)
Bits(k, n) == [i \in 0..(n - 1) |-> (k \div 2^i) % 2]

RECURSIVE LeastEnergy(_, _, _, _)
LeastEnergy(q, n, lo, hi) ==
    IF lo = hi THEN Energy(q, Bits(lo, n), n)
    ELSE WMin(LeastEnergy(q, n, lo, (lo + hi) \div 2),
              LeastEnergy(q, n, (lo + hi) \div 2 + 1, hi))

C10_MinimisersFeasible ==
    Built =>
        \A least \in {LeastEnergy(Q, N, 0, 2^N - 1)} :
            \A x \in Samples(N) :
                Energy(Q, x, N) = least =>
                    Feasible(x, players, budget, positional_reqs, team_size)

====
